---- MODULE Spec2Model ----
(***************************************************************************)
(* Model of the release notifier (slackbot.py): the command-line entry     *)
(* point, notify_release, dump_release_info and the helpers they call.     *)
(*                                                                         *)
(* The repository holds two copies of the program: src/tool/slackbot.py    *)
(* (the one the unit tests import) and src/slackbot.py.  They differ in    *)
(* how get_commit_info and dump_release_info derive the org/repo           *)
(* identifier; the variable impl says which copy is running.               *)
(*                                                                         *)
(* Python strings are sequences of tokens (a token is an indivisible run   *)
(* of characters such as "refs/tags/", ".git", "\n"), so that `in`, split, *)
(* replace, strip and lstrip are computed the way Python computes them.    *)
(* Python dicts are records, {} is the function with the empty domain.     *)
(***************************************************************************)
EXTENDS Integers, Sequences, FiniteSets, TLC

VARIABLES
    impl,           \* "tool" (src/tool/slackbot.py) or "root" (src/slackbot.py)
    cli,            \* command-line values, by argument name (None: not given)
    env,            \* environment variables, by argument name (None: unset)
    args,           \* argparse's namespace after parse_args
    slack_urls,     \* main: args.slack_url_release.split(',')
    pc,             \* position of the run in main / notify_release / dump_release_info
    org_repo,       \* notify_release: org_repo
    tag,            \* notify_release: tag
    release_info,   \* notify_release: release_info
    commit_info,    \* notify_release: commit_info
    changelog,      \* notify_release: changelog
    commit_author,  \* notify_release: commit_author
    message,        \* notify_release: message
    sent,           \* notify_release: number of slack_urls the loop has gone through
    d_org_repo,     \* dump_release_info: org_repo
    d_tag,          \* dump_release_info: tag
    d_release_info, \* dump_release_info: release_info
    calls,          \* every external call made so far, in order
    file0,          \* content of the file at args.dump_release_info before the run
    file,           \* content of the file at args.dump_release_info
    exc,            \* the exception that ended the run, and where it was raised
    exit_status,    \* the process exit status (NotExited while running)
    report,         \* category of the one-line error report
    fcall,          \* pure-function harness: the call under test
    fret            \* pure-function harness: its result

nvars == <<org_repo, tag, release_info, commit_info, changelog, commit_author, message, sent>>
dvars == <<d_org_repo, d_tag, d_release_info>>
ivars == <<impl, cli, env, file0>>
mvars == <<args, slack_urls, pc, calls, file, exc, exit_status, report>>
hvars == <<fcall, fret>>
vars  == <<ivars, mvars, nvars, dvars, hvars>>

-----------------------------------------------------------------------------
(* Python values *)

\* Python's None, kept apart from every string by a token no string holds.
None == <<"<None>">>

\* Python truthiness of a str-or-None value: `if tag`, `all([...])`.
Truthy(v) == v # None /\ v # <<>>

\* The dict {}.
EmptyDict == [k \in {} |-> k]

\* A call that returned v / a call that raised an exception of class cls.
Ok(v)    == [ok |-> TRUE, v |-> v]
Err(cls) == [ok |-> FALSE, exc |-> cls]

-----------------------------------------------------------------------------
(* str operations on token sequences *)

\* index of the first occurrence of tok in s, 0 when there is none
RECURSIVE IndexFrom(_, _, _)
IndexFrom(s, tok, i) ==
    IF i > Len(s) THEN 0
    ELSE IF s[i] = tok THEN i
    ELSE IndexFrom(s, tok, i + 1)

Index(s, tok) == IndexFrom(s, tok, 1)

\* s.split(tok): never the empty list, [''] for the empty string
RECURSIVE Split(_, _)
Split(s, tok) ==
    LET i == Index(s, tok) IN
    IF i = 0 THEN <<s>>
    ELSE <<SubSeq(s, 1, i - 1)>> \o Split(SubSeq(s, i + 1, Len(s)), tok)

\* s.replace(tok, ''): every occurrence goes
Replace(s, tok) == SelectSeq(s, LAMBDA t : t # tok)

\* s.lstrip(chars), chars given as the set of tokens made only of those characters
RECURSIVE LStrip(_, _)
LStrip(s, toks) ==
    IF s # <<>> /\ Head(s) \in toks THEN LStrip(Tail(s), toks) ELSE s

RECURSIVE RStrip(_, _)
RStrip(s, toks) ==
    IF s # <<>> /\ s[Len(s)] \in toks
    THEN RStrip(SubSeq(s, 1, Len(s) - 1), toks) ELSE s

\* the whitespace tokens
Whitespace == {"\n", "\t", " "}

\* s.strip()
Strip(s) == RStrip(LStrip(s, Whitespace), Whitespace)

\* `sub in s` for a string sub
In(sub, s) ==
    \E i \in 1..(Len(s) - Len(sub) + 1) : SubSeq(s, i, i + Len(sub) - 1) = sub

\* index of the last occurrence of tok in s, 0 when there is none
RECURSIVE LastIndexFrom(_, _, _)
LastIndexFrom(s, tok, i) ==
    IF i < 1 THEN 0
    ELSE IF s[i] = tok THEN i
    ELSE LastIndexFrom(s, tok, i - 1)

LastIndex(s, tok) == LastIndexFrom(s, tok, Len(s))

-----------------------------------------------------------------------------
(* execute_shell_command and get_tag_for_commit *)

\* What `git ls-remote <url>` can answer: its exit status and its standard
\* output, which is either valid UTF-8 (text) or not.
Proc(rc, utf8, text) == [rc |-> rc, utf8 |-> utf8, text |-> text]

\* Mutant of execute_shell_command: the exit status is not checked.
execute_shell_command_unchecked(proc) ==
    IF ~proc.utf8 THEN Err("UnicodeDecodeError")
    ELSE Ok(Strip(proc.text))

\* subprocess.check_output, decode('utf-8'), strip(); CalledProcessError is
\* re-raised as RuntimeError, a decode failure is a UnicodeDecodeError.
execute_shell_command(proc) ==
    IF proc.rc # 0 THEN Err("RuntimeError")
    ELSE IF ~proc.utf8 THEN Err("UnicodeDecodeError")
    ELSE Ok(Strip(proc.text))

Marker == "refs/tags/"
Deref  == "^{}"

\* parts[1].replace("^{}", "") of line.split('refs/tags/')
tag_of_line(line) == Replace(Split(line, Marker)[2], Deref)

\* the for loop over the lines: the first line with the hash and the marker
RECURSIVE scan_lines(_, _)
scan_lines(lines, commit_hash) ==
    IF lines = <<>> THEN None
    ELSE IF /\ In(commit_hash, Head(lines))
            /\ In(<<Marker>>, Head(lines))
            /\ Len(Split(Head(lines), Marker)) > 1
         THEN tag_of_line(Head(lines))
         ELSE scan_lines(Tail(lines), commit_hash)

\* get_tag_for_commit, given the answer of `git ls-remote repo_url`
get_tag_for_commit(proc, commit_hash) ==
    LET result == execute_shell_command(proc) IN
    IF ~result.ok THEN result
    ELSE Ok(scan_lines(Split(result.v, "\n"), commit_hash))

-----------------------------------------------------------------------------
(* extract_org_repo *)

\* Tokens made of scheme characters (letters, digits, "+", "-", "."), and
\* those of them that start with a letter.
SchemeLetterTokens == {"https", "http", "ssh", "git", "alice", "host", "org", "repo", "my", "hub.io"}
SchemeCharTokens   == SchemeLetterTokens \cup {".git"}

\* Tokens made only of "/".
SlashTokens == {"/", "//"}

\* urlparse(url).scheme: the text before the first ":" when it starts with a
\* letter and holds scheme characters only, else ''.
urlparse_scheme(url) ==
    LET i == Index(url, ":") IN
    IF /\ i > 1
       /\ url[1] \in SchemeLetterTokens
       /\ \A j \in 1..(i - 1) : url[j] \in SchemeCharTokens
    THEN SubSeq(url, 1, i - 1)
    ELSE <<>>

\* urlparse(url).path: what follows the scheme, without the "//netloc" part
urlparse_path(url) ==
    LET s    == urlparse_scheme(url)
        rest == IF s = <<>> THEN url ELSE SubSeq(url, Len(s) + 2, Len(url))
    IN  IF rest # <<>> /\ Head(rest) = "//"
        THEN LET after == Tail(rest)
                 k == CHOOSE n \in 1..(Len(after) + 1) :
                        /\ \A j \in 1..(n - 1) : after[j] \notin SlashTokens
                        /\ (n <= Len(after) => after[n] \in SlashTokens)
             IN  SubSeq(after, k, Len(after))
        ELSE rest

\* re.match(r'git@(.*):(.*)', url): whether it matches, and group(2), which
\* starts after the last ":" because the first group is greedy
re_match_git(url) ==
    IF /\ Len(url) >= 3
       /\ url[1] = "git"
       /\ url[2] = "@"
       /\ LastIndex(url, ":") >= 3
    THEN Ok(SubSeq(url, LastIndex(url, ":") + 1, Len(url)))
    ELSE Err("no match")

\* org_repo.replace('.git', '')
strip_git(path) == Replace(path, ".git")

extract_org_repo(git_repo_url) ==
    IF urlparse_scheme(git_repo_url) \in {<<"http">>, <<"https">>}
    THEN Ok(strip_git(LStrip(urlparse_path(git_repo_url), SlashTokens)))
    ELSE IF re_match_git(git_repo_url).ok
         THEN Ok(strip_git(re_match_git(git_repo_url).v))
         ELSE Err("ValueError")

-----------------------------------------------------------------------------
(* build_message *)

WhatsChanged == "What's Changed"

\* The code fence, three backquotes (a backquote cannot stand in a string here).
Fence == "<code fence>"

\* Mutant of changelog_rows: only a change equal to "What's Changed" is skipped.
RECURSIVE changelog_rows_exact(_)
changelog_rows_exact(cl) ==
    IF cl = <<>> THEN <<>>
    ELSE IF Head(cl) = <<WhatsChanged>>
         THEN changelog_rows_exact(Tail(cl))
         ELSE Head(cl) \o <<"\n">> \o changelog_rows_exact(Tail(cl))

\* the loop over changelog: a change holding "What's Changed" is skipped
RECURSIVE changelog_rows(_)
changelog_rows(cl) ==
    IF cl = <<>> THEN <<>>
    ELSE IF In(<<WhatsChanged>>, Head(cl))
         THEN changelog_rows(Tail(cl))
         ELSE Head(cl) \o <<"\n">> \o changelog_rows(Tail(cl))

build_message(project_name, released_by, git_hash, author, cl) ==
    <<"*Release Notification:*", "\n">>
    \o <<"*Project:* ">> \o project_name \o <<"\n">>
    \o <<"*Released by:* ">> \o released_by \o <<"\n">>
    \o <<"*Commit:* ">> \o git_hash \o <<"\n">>
    \o <<"*Author:* ">> \o author \o <<"\n">>
    \o <<"*What's Changed:*", "\n">>
    \o <<Fence, "\n">>
    \o changelog_rows(cl)
    \o <<Fence>>

-----------------------------------------------------------------------------
(* HTTP helpers *)

\* An HTTP answer: whether the status is 2xx, and the JSON body.
Resp(status_ok, json) == [status_ok |-> status_ok, json |-> json]

\* Mutant of raise_for_status: a failed response is let through.
raise_for_status_never(resp) == FALSE

\* response.raise_for_status(): TRUE when it raises
raise_for_status(resp) == ~resp.status_ok

\* get_release_info_by_tag, given the answer of the release-by-tag request
get_release_info_by_tag(resp) ==
    IF raise_for_status(resp) THEN Err("HTTPError") ELSE Ok(resp.json)

\* repo_url.split(':')[1].replace('.git', ''): how src/slackbot.py derives
\* org/repo in get_commit_info and in dump_release_info
split_colon_org_repo(repo_url) ==
    IF Len(Split(repo_url, ":")) < 2 THEN Err("IndexError")
    ELSE Ok(strip_git(Split(repo_url, ":")[2]))

\* the org/repo get_commit_info puts in its request URL
commit_org_repo(im, repo_url) ==
    IF im = "tool" THEN extract_org_repo(repo_url)
    ELSE split_colon_org_repo(repo_url)

\* the org/repo dump_release_info passes to get_release_info_by_tag
dump_org_repo(im, repo_url) ==
    IF im = "tool" THEN extract_org_repo(repo_url)
    ELSE split_colon_org_repo(repo_url)

\* get_commit_info, given the answer of the commit request
get_commit_info(resp) ==
    IF raise_for_status(resp) THEN Err("HTTPError") ELSE Ok(resp.json)

\* Mutant of send_slack_notification: raise_for_status is not called.
send_slack_notification_unchecked(webhook_url, resp) ==
    IF webhook_url = <<>> THEN Err("MissingSchema")
    ELSE Ok(None)

\* send_slack_notification: requests.post refuses a URL without a scheme
\* (MissingSchema) before sending; otherwise raise_for_status decides
send_slack_notification(webhook_url, resp) ==
    IF webhook_url = <<>> THEN Err("MissingSchema")
    ELSE IF raise_for_status(resp) THEN Err("HTTPError")
    ELSE Ok(None)

\* what a POST to webhook_url can be answered: nothing is sent to a URL
\* without a scheme, so that delivery can only fail
PostAnswers(webhook_url) ==
    IF webhook_url = <<>> THEN {Resp(FALSE, EmptyDict)}
    ELSE {Resp(TRUE, EmptyDict), Resp(FALSE, EmptyDict)}

\* notify_release: changelog and commit_author out of the release record
release_fields(ri) ==
    IF "body" \notin DOMAIN ri THEN Err("KeyError")
    ELSE IF ri.body = None THEN Err("AttributeError")
    ELSE IF "author" \notin DOMAIN ri THEN Err("KeyError")
    ELSE IF "login" \notin DOMAIN ri.author THEN Err("KeyError")
    ELSE Ok([changelog |-> Split(ri.body, "\n"), commit_author |-> ri.author.login])

\* notify_release: changelog and commit_author out of the commit record
commit_fields(ci) ==
    IF "commit" \notin DOMAIN ci THEN Err("KeyError")
    ELSE IF "message" \notin DOMAIN ci.commit THEN Err("KeyError")
    ELSE IF "author" \notin DOMAIN ci.commit THEN Err("KeyError")
    ELSE IF "name" \notin DOMAIN ci.commit.author THEN Err("KeyError")
    ELSE Ok([changelog |-> <<ci.commit.message>>, commit_author |-> ci.commit.author.name])

\* dump_release_info: the record built from the commit record
dump_fallback_record(ci) ==
    IF ~commit_fields(ci).ok THEN commit_fields(ci)
    ELSE Ok([commit |-> ci, message |-> ci.commit.message, author |-> ci.commit.author.name])

\* json.dump(release_info, file, indent=4): the document written
json_dump(d) == [indent |-> 4, doc |-> d]

\* Mutant of needs_commit_fallback: the commit record is always fetched and used.
needs_commit_fallback_always(cl) == TRUE

\* notify_release: `if not changelog`
needs_commit_fallback(cl) == cl = <<>>

\* Mutant of dump_needs_fallback: the fallback is always taken.
dump_needs_fallback_always(ri) == TRUE

\* dump_release_info: `if not release_info`
dump_needs_fallback(ri) == ri = EmptyDict

-----------------------------------------------------------------------------
(* main: arguments and the exception handlers *)

ArgRequired == {"git_repo_url", "git_hash", "project_name", "released_by",
                "release_bot_token", "slack_url_release"}
ArgAll == ArgRequired \cup {"dump_release_info"}

\* argparse: the command-line value, else the default os.getenv(...) gave;
\* --dump-release-info has no default
parse_args(c, e) ==
    [n \in ArgAll |->
        IF n = "dump_release_info" THEN c[n]
        ELSE IF c[n] # None THEN c[n] ELSE e[n]]

\* Mutant of all_provided: the token is left out of the check.
all_provided_without_token(a) ==
    \A n \in ArgRequired \ {"release_bot_token"} : Truthy(a[n])

\* all([args.git_repo_url, ..., args.slack_url_release])
all_provided(a) == \A n \in ArgRequired : Truthy(a[n])

\* the classes an exception of class cls is an instance of
Bases(cls) ==
    CASE cls = "HTTPError"          -> {"HTTPError", "RequestException", "OSError", "Exception"}
      [] cls = "MissingSchema"      -> {"MissingSchema", "RequestException", "ValueError", "OSError", "Exception"}
      [] cls = "UnicodeDecodeError" -> {"UnicodeDecodeError", "ValueError", "Exception"}
      [] OTHER                      -> {cls, "Exception"}

\* Mutant of handler: the ValueError clause comes first.
handler_value_first(cls) ==
    IF "ValueError" \in Bases(cls) THEN "value"
    ELSE IF "RequestException" \in Bases(cls) THEN "network"
    ELSE "unexpected"

\* the except clauses, in order
handler(cls) ==
    IF "RequestException" \in Bases(cls) THEN "network"
    ELSE IF "ValueError" \in Bases(cls) THEN "value"
    ELSE "unexpected"

NoExc == [cls |-> "", fn |-> "", caller |-> ""]
NotExited == <<>>
Exited(status) == <<status>>

-----------------------------------------------------------------------------
(* The inputs of a run and the answers of the outside world *)

\* longest webhook list a run is given
MaxUrls == 2

UrlHttps == <<"https", ":", "//", "host", "/", "org", "/", "repo", ".git">>
UrlSsh   == <<"git", "@", "host", ":", "org", "/", "repo", ".git">>
UrlOther == <<"alice", "@", "host", ":", "org", "/", "repo", ".git">>
RunUrls  == {UrlHttps, UrlSsh, UrlOther}

GitHash    == <<"H">>
Project    == <<"ProjectX">>
ReleasedBy == <<"username">>
Token      == <<"token123">>
DumpPath   == <<"/path/to/release_info.json">>

Webhooks == {<<"https://hooks/XXX">>, <<"https://hooks/YYY">>, <<>>}

\* ','.join(urls)
RECURSIVE JoinComma(_)
JoinComma(urls) ==
    IF Len(urls) = 0 THEN <<>>
    ELSE IF Len(urls) = 1 THEN urls[1]
    ELSE urls[1] \o <<",">> \o JoinComma(Tail(urls))

SlackLists == UNION {[1..k -> Webhooks] : k \in 1..MaxUrls}

\* <<command-line value, environment value>> of one argument
SimpleOpts(v) == {<<None, None>>, <<<<>>, v>>, <<None, v>>}
UrlOpts   == {<<None, None>>, <<None, UrlHttps>>} \cup {<<u, None>> : u \in RunUrls}
SlackOpts == {<<None, None>>} \cup {<<JoinComma(l), None>> : l \in SlackLists}
DumpOpts  == {None, <<>>, DumpPath}

Inputs ==
    { [cli |-> [git_repo_url |-> u[1], git_hash |-> h[1], project_name |-> p[1],
                released_by |-> r[1], release_bot_token |-> t[1],
                slack_url_release |-> w[1], dump_release_info |-> d],
       env |-> [git_repo_url |-> u[2], git_hash |-> h[2], project_name |-> p[2],
                released_by |-> r[2], release_bot_token |-> t[2],
                slack_url_release |-> w[2]]] :
        u \in UrlOpts, h \in SimpleOpts(GitHash), p \in SimpleOpts(Project),
        r \in SimpleOpts(ReleasedBy), t \in SimpleOpts(Token),
        w \in SlackOpts, d \in DumpOpts }

\* the destination file before the run: not there, or left by an earlier run
Absent == [absent |-> TRUE]
Stale  == [text |-> <<"stale">>]

\* lines of a `git ls-remote` listing
LineHead     == <<"H", "\t", "refs/heads/", "main">>
LineTag      == <<"H", "\t", Marker, "v1.0.0">>
LineTagDeref == <<"H", "\t", Marker, "v1.0.0", Deref>>
LineOtherTag == <<"G", "\t", Marker, "v2.0.0">>

\* the listing text git prints: every line ends with a newline
RECURSIVE Listing(_)
Listing(lines) ==
    IF lines = <<>> THEN <<>>
    ELSE Head(lines) \o <<"\n">> \o Listing(Tail(lines))

LsRemoteAnswers ==
    { Proc(128, TRUE, <<>>),
      Proc(0, FALSE, <<>>),
      Proc(0, TRUE, Listing(<<LineHead, LineOtherTag>>)),
      Proc(0, TRUE, Listing(<<LineHead, LineOtherTag, LineTag>>)),
      Proc(0, TRUE, Listing(<<LineHead, LineTagDeref>>)) }

ReleaseFull      == [body |-> <<WhatsChanged, "\n", "fix bug", "\n", "add feature">>,
                     author |-> [login |-> <<"octocat">>]]
ReleaseEmptyBody == [body |-> <<>>, author |-> [login |-> <<"octocat">>]]
ReleaseNullBody  == [body |-> None, author |-> [login |-> <<"octocat">>]]
ReleaseNoBody    == [author |-> [login |-> <<"octocat">>]]

ReleaseAnswers ==
    { Resp(FALSE, EmptyDict), Resp(TRUE, ReleaseFull), Resp(TRUE, ReleaseEmptyBody),
      Resp(TRUE, ReleaseNullBody), Resp(TRUE, ReleaseNoBody) }

CommitFull     == [commit |-> [message |-> <<"hotfix: patch">>,
                               author |-> [name |-> <<"Jane Doe">>]]]
CommitNoAuthor == [commit |-> [message |-> <<"hotfix: patch">>]]

CommitAnswers == { Resp(FALSE, EmptyDict), Resp(TRUE, CommitFull), Resp(TRUE, CommitNoAuthor) }

-----------------------------------------------------------------------------
(* The external calls a run makes, as logged in calls *)

LsRemoteCall(url, h, proc) ==
    [fn |-> "git ls-remote", url |-> url, commit_hash |-> h, failed |-> proc.rc # 0]
ReleaseCall(or, tg, tk, resp) ==
    [fn |-> "GET release", org_repo |-> or, tag |-> tg, token |-> tk,
     failed |-> ~resp.status_ok, json |-> resp.json]
CommitCall(or, h, tk, resp) ==
    [fn |-> "GET commit", org_repo |-> or, hash |-> h, token |-> tk,
     failed |-> ~resp.status_ok, json |-> resp.json]
PostCall(url, payload, resp) ==
    [fn |-> "POST", url |-> url, data |-> payload, failed |-> ~resp.status_ok]
OpenCall(path, writable) ==
    [fn |-> "open", path |-> path, failed |-> ~writable]

-----------------------------------------------------------------------------
(* Initial state *)

HarnessIdle == fcall = EmptyDict /\ fret = EmptyDict

LocalsIdle ==
    /\ org_repo = None /\ tag = None /\ release_info = EmptyDict
    /\ commit_info = EmptyDict
    /\ changelog = <<>> /\ commit_author = <<>> /\ message = None /\ sent = 0
    /\ d_org_repo = None /\ d_tag = None /\ d_release_info = EmptyDict

Init ==
    /\ impl \in {"tool", "root"}
    /\ \E i \in Inputs : cli = i.cli /\ env = i.env
    /\ file0 \in {Absent, Stale}
    /\ file = file0
    /\ args = EmptyDict
    /\ slack_urls = <<>>
    /\ pc = "start"
    /\ calls = <<>>
    /\ exc = NoExc
    /\ exit_status = NotExited
    /\ report = ""
    /\ LocalsIdle
    /\ HarnessIdle

-----------------------------------------------------------------------------
(* Actions *)

\* an exception leaves the try block: the matching except clause reports it
\* and sys.exit(1) ends the run
Raise(cls, fn, caller) ==
    /\ exc' = [cls |-> cls, fn |-> fn, caller |-> caller]
    /\ report' = handler(cls)
    /\ exit_status' = Exited(1)
    /\ pc' = "exit"

Continue(next) ==
    /\ pc' = next
    /\ UNCHANGED <<exc, exit_status, report>>

\* main: parse_args, the check of the required arguments (parser.error exits
\* with status 2), the split of the webhook list
ParseArgs ==
    /\ pc = "start"
    /\ args' = parse_args(cli, env)
    /\ IF all_provided(args')
       THEN /\ slack_urls' = Split(args'.slack_url_release, ",")
            /\ Continue("notify_locate")
       ELSE /\ slack_urls' = slack_urls
            /\ pc' = "exit"
            /\ exit_status' = Exited(2)
            /\ report' = "usage"
            /\ exc' = exc
    /\ UNCHANGED <<ivars, calls, file, nvars, dvars, hvars>>

\* notify_release: org_repo = extract_org_repo(git_repo_url)
NotifyLocate ==
    /\ pc = "notify_locate"
    /\ LET r == extract_org_repo(args.git_repo_url) IN
       IF r.ok
       THEN org_repo' = r.v /\ Continue("notify_tag")
       ELSE org_repo' = org_repo /\ Raise(r.exc, "extract_org_repo", "notify_release")
    /\ UNCHANGED <<ivars, args, slack_urls, calls, file, dvars, hvars>>
    /\ UNCHANGED <<tag, release_info, commit_info, changelog, commit_author, message, sent>>

\* Mutant of NotifyTag: the release fetch is made whether or not a tag was found.
NotifyTag_release_always ==
    /\ pc = "notify_tag"
    /\ \E proc \in LsRemoteAnswers :
        LET r == get_tag_for_commit(proc, args.git_hash) IN
        /\ calls' = Append(calls, LsRemoteCall(args.git_repo_url, args.git_hash, proc))
        /\ IF r.ok
           THEN tag' = r.v /\ Continue("notify_release")
           ELSE tag' = tag /\ Raise(r.exc, "get_tag_for_commit", "notify_release")
    /\ changelog' = <<>>
    /\ commit_author' = <<>>
    /\ UNCHANGED <<ivars, args, slack_urls, file, dvars, hvars>>
    /\ UNCHANGED <<org_repo, release_info, commit_info, message, sent>>

\* notify_release: tag = get_tag_for_commit(...); changelog = []; commit_author = ""
NotifyTag ==
    /\ pc = "notify_tag"
    /\ \E proc \in LsRemoteAnswers :
        LET r == get_tag_for_commit(proc, args.git_hash) IN
        /\ calls' = Append(calls, LsRemoteCall(args.git_repo_url, args.git_hash, proc))
        /\ IF r.ok
           THEN /\ tag' = r.v
                /\ Continue(IF Truthy(r.v) THEN "notify_release"
                            ELSE IF needs_commit_fallback(<<>>) THEN "notify_commit"
                            ELSE "notify_build")
           ELSE /\ tag' = tag
                /\ Raise(r.exc, "get_tag_for_commit", "notify_release")
    /\ changelog' = <<>>
    /\ commit_author' = <<>>
    /\ UNCHANGED <<ivars, args, slack_urls, file, dvars, hvars>>
    /\ UNCHANGED <<org_repo, release_info, commit_info, message, sent>>

\* notify_release, `if tag`: the release fetch and the two fields read from it
NotifyRelease ==
    /\ pc = "notify_release"
    /\ \E resp \in ReleaseAnswers :
        LET r == get_release_info_by_tag(resp)
            f == IF r.ok THEN release_fields(r.v) ELSE r
        IN
        /\ calls' = Append(calls, ReleaseCall(org_repo, tag, args.release_bot_token, resp))
        /\ IF ~r.ok
           THEN /\ UNCHANGED <<release_info, changelog, commit_author>>
                /\ Raise(r.exc, "get_release_info_by_tag", "notify_release")
           ELSE IF ~f.ok
           THEN /\ UNCHANGED <<release_info, changelog, commit_author>>
                /\ Raise(f.exc, "notify_release", "main")
           ELSE /\ release_info' = r.v
                /\ changelog' = f.v.changelog
                /\ commit_author' = f.v.commit_author
                /\ Continue(IF needs_commit_fallback(f.v.changelog)
                            THEN "notify_commit" ELSE "notify_build")
    /\ UNCHANGED <<ivars, args, slack_urls, file, dvars, hvars>>
    /\ UNCHANGED <<org_repo, tag, commit_info, message, sent>>

\* notify_release, `if not changelog`: the commit fetch and the fields read from it
NotifyCommit ==
    /\ pc = "notify_commit"
    /\ LET o == commit_org_repo(impl, args.git_repo_url) IN
       IF ~o.ok
       THEN /\ Raise(o.exc, "get_commit_info", "notify_release")
            /\ UNCHANGED <<calls, commit_info, changelog, commit_author>>
       ELSE \E resp \in CommitAnswers :
            LET r == get_commit_info(resp)
                f == IF r.ok THEN commit_fields(r.v) ELSE r
            IN
            /\ calls' = Append(calls, CommitCall(o.v, args.git_hash, args.release_bot_token, resp))
            /\ IF ~r.ok
               THEN /\ UNCHANGED <<commit_info, changelog, commit_author>>
                    /\ Raise(r.exc, "get_commit_info", "notify_release")
               ELSE IF ~f.ok
               THEN /\ UNCHANGED <<commit_info, changelog, commit_author>>
                    /\ Raise(f.exc, "notify_release", "main")
               ELSE /\ commit_info' = r.v
                    /\ changelog' = f.v.changelog
                    /\ commit_author' = f.v.commit_author
                    /\ Continue("notify_build")
    /\ UNCHANGED <<ivars, args, slack_urls, file, dvars, hvars>>
    /\ UNCHANGED <<org_repo, tag, release_info, message, sent>>

\* notify_release: message = build_message(...)
NotifyBuild ==
    /\ pc = "notify_build"
    /\ message' = build_message(args.project_name, args.released_by, args.git_hash,
                                commit_author, changelog)
    /\ sent' = 0
    /\ Continue("notify_send")
    /\ UNCHANGED <<ivars, args, slack_urls, calls, file, dvars, hvars>>
    /\ UNCHANGED <<org_repo, tag, release_info, commit_info, changelog, commit_author>>

\* notify_release: one turn of `for url in slack_urls`
NotifySend ==
    /\ pc = "notify_send"
    /\ sent < Len(slack_urls)
    /\ \E resp \in PostAnswers(slack_urls[sent + 1]) :
        LET url == slack_urls[sent + 1]
            r   == send_slack_notification(url, resp)
        IN
        /\ calls' = Append(calls, PostCall(url, [text |-> message], resp))
        /\ IF r.ok
           THEN /\ sent' = sent + 1
                /\ Continue(IF sent + 1 = Len(slack_urls) THEN "notified" ELSE "notify_send")
           ELSE /\ sent' = sent
                /\ Raise(r.exc, "send_slack_notification", "notify_release")
    /\ UNCHANGED <<ivars, args, slack_urls, file, dvars, hvars>>
    /\ UNCHANGED <<org_repo, tag, release_info, commit_info, changelog, commit_author, message>>

\* main: `if args.dump_release_info`
MainAfterNotify ==
    /\ pc = "notified"
    /\ Continue(IF Truthy(args.dump_release_info) THEN "dump_locate" ELSE "finish")
    /\ UNCHANGED <<ivars, args, slack_urls, calls, file, nvars, dvars, hvars>>

\* Mutant of DumpLocate: the destination file is opened for writing, and so
\* truncated, before anything is fetched.
DumpLocate_opening_file ==
    /\ pc = "dump_locate"
    /\ calls' = Append(calls, OpenCall(args.dump_release_info, TRUE))
    /\ file' = [text |-> <<>>]
    /\ LET r == dump_org_repo(impl, args.git_repo_url) IN
       IF r.ok
       THEN d_org_repo' = r.v /\ Continue("dump_tag")
       ELSE d_org_repo' = d_org_repo /\ Raise(r.exc, "dump_release_info", "main")
    /\ UNCHANGED <<ivars, args, slack_urls, nvars, hvars>>
    /\ UNCHANGED <<d_tag, d_release_info>>

\* dump_release_info: org_repo
DumpLocate ==
    /\ pc = "dump_locate"
    /\ LET r == dump_org_repo(impl, args.git_repo_url) IN
       IF r.ok
       THEN d_org_repo' = r.v /\ Continue("dump_tag")
       ELSE d_org_repo' = d_org_repo /\ Raise(r.exc, "dump_release_info", "main")
    /\ UNCHANGED <<ivars, args, slack_urls, calls, file, nvars, hvars>>
    /\ UNCHANGED <<d_tag, d_release_info>>

\* dump_release_info: tag = get_tag_for_commit(...); `... if tag else {}`
DumpTag ==
    /\ pc = "dump_tag"
    /\ \E proc \in LsRemoteAnswers :
        LET r == get_tag_for_commit(proc, args.git_hash) IN
        /\ calls' = Append(calls, LsRemoteCall(args.git_repo_url, args.git_hash, proc))
        /\ IF r.ok
           THEN /\ d_tag' = r.v
                /\ Continue(IF Truthy(r.v) THEN "dump_release"
                            ELSE IF dump_needs_fallback(EmptyDict) THEN "dump_commit"
                            ELSE "dump_write")
           ELSE /\ d_tag' = d_tag
                /\ Raise(r.exc, "get_tag_for_commit", "dump_release_info")
    /\ d_release_info' = EmptyDict
    /\ UNCHANGED <<ivars, args, slack_urls, file, nvars, hvars, d_org_repo>>

\* dump_release_info: release_info = get_release_info_by_tag(...)
DumpRelease ==
    /\ pc = "dump_release"
    /\ \E resp \in ReleaseAnswers :
        LET r == get_release_info_by_tag(resp) IN
        /\ calls' = Append(calls, ReleaseCall(d_org_repo, d_tag, args.release_bot_token, resp))
        /\ IF r.ok
           THEN /\ d_release_info' = r.v
                /\ Continue(IF dump_needs_fallback(r.v) THEN "dump_commit" ELSE "dump_write")
           ELSE /\ d_release_info' = d_release_info
                /\ Raise(r.exc, "get_release_info_by_tag", "dump_release_info")
    /\ UNCHANGED <<ivars, args, slack_urls, file, nvars, hvars, d_org_repo, d_tag>>

\* dump_release_info, `if not release_info`: the commit fetch and the record built
DumpCommit ==
    /\ pc = "dump_commit"
    /\ LET o == commit_org_repo(impl, args.git_repo_url) IN
       IF ~o.ok
       THEN /\ Raise(o.exc, "get_commit_info", "dump_release_info")
            /\ UNCHANGED <<calls, d_release_info>>
       ELSE \E resp \in CommitAnswers :
            LET r == get_commit_info(resp)
                f == IF r.ok THEN dump_fallback_record(r.v) ELSE r
            IN
            /\ calls' = Append(calls, CommitCall(o.v, args.git_hash, args.release_bot_token, resp))
            /\ IF ~r.ok
               THEN /\ d_release_info' = d_release_info
                    /\ Raise(r.exc, "get_commit_info", "dump_release_info")
               ELSE IF ~f.ok
               THEN /\ d_release_info' = d_release_info
                    /\ Raise(f.exc, "dump_release_info", "main")
               ELSE /\ d_release_info' = f.v
                    /\ Continue("dump_write")
    /\ UNCHANGED <<ivars, args, slack_urls, file, nvars, hvars, d_org_repo, d_tag>>

\* dump_release_info: open(output_file, 'w') and json.dump
DumpWrite ==
    /\ pc = "dump_write"
    /\ \E writable \in BOOLEAN :
        /\ calls' = Append(calls, OpenCall(args.dump_release_info, writable))
        /\ IF writable
           THEN /\ file' = json_dump(d_release_info)
                /\ Continue("finish")
           ELSE /\ file' = file
                /\ Raise("OSError", "open", "dump_release_info")
    /\ UNCHANGED <<ivars, args, slack_urls, nvars, dvars, hvars>>

\* main: sys.exit(0)
Finish ==
    /\ pc = "finish"
    /\ pc' = "exit"
    /\ exit_status' = Exited(0)
    /\ UNCHANGED <<ivars, args, slack_urls, calls, file, exc, report, nvars, dvars, hvars>>

Next ==
    \/ ParseArgs
    \/ NotifyLocate
    \/ NotifyTag
    \/ NotifyRelease
    \/ NotifyCommit
    \/ NotifyBuild
    \/ NotifySend
    \/ MainAfterNotify
    \/ DumpLocate
    \/ DumpTag
    \/ DumpRelease
    \/ DumpCommit
    \/ DumpWrite
    \/ Finish

Spec == Init /\ [][Next]_vars

-----------------------------------------------------------------------------
(* The helpers on their own: one call of a pure function on a drawn input *)

\* most lines in a drawn listing, tokens in a drawn URL, entries in a drawn changelog
MaxLines   == 3
MaxUrlLen  == 3
MaxChanges == 3

MainIdle ==
    /\ impl = "tool" /\ cli = EmptyDict /\ env = EmptyDict
    /\ file0 = Absent /\ file = Absent
    /\ args = EmptyDict /\ slack_urls = <<>> /\ pc = "call" /\ calls = <<>>
    /\ exc = NoExc /\ exit_status = NotExited /\ report = ""
    /\ LocalsIdle

Return(v) ==
    /\ fret = EmptyDict
    /\ fret' = v
    /\ UNCHANGED <<fcall, ivars, mvars, nvars, dvars>>

(* get_tag_for_commit *)

LineLongHash  == <<"H", "9", "\t", Marker, "v9.0.0">>
LineNested    == <<"H", "\t", Marker, "rel/", Marker, "v1.0.0">>
LineHashNamed == <<"G", "\t", Marker, "H">>
LineSecondTag == <<"H", "\t", Marker, "v3.0.0">>

TagLines == {LineHead, LineTag, LineTagDeref, LineOtherTag, LineLongHash,
             LineNested, LineHashNamed, LineSecondTag}

TagListings == UNION {[1..k -> TagLines] : k \in 0..MaxLines}

InitTag ==
    /\ MainIdle
    /\ \E l \in TagListings :
         fcall = [fn |-> "get_tag_for_commit", proc |-> Proc(0, TRUE, Listing(l)),
                  commit_hash |-> GitHash]
    /\ fret = EmptyDict

CallTag ==
    /\ fcall.fn = "get_tag_for_commit"
    /\ Return(get_tag_for_commit(fcall.proc, fcall.commit_hash))

SpecTag == InitTag /\ [][CallTag]_vars

(* extract_org_repo *)

UrlTokens == {"https", "git", "alice", "host", "org", "repo", ".git", ":", "//", "/", "@"}

Schemes  == {"https", "http"}
Users    == {"git", "alice"}
Repos    == {<<"repo">>, <<"my", ".git", "hub.io">>}
Suffixes == {<<>>, <<".git">>}

HttpUrl(scheme, repo, suffix) == <<scheme, ":", "//", "host", "/", "org", "/">> \o repo \o suffix
SshUrl(user, repo, suffix)    == <<user, "@", "host", ":", "org", "/">> \o repo \o suffix

DrawnUrls ==
    UNION {[1..k -> UrlTokens] : k \in 0..MaxUrlLen}
    \cup {HttpUrl(s, r, g) : s \in Schemes, r \in Repos, g \in Suffixes}
    \cup {SshUrl(u, r, g) : u \in Users, r \in Repos, g \in Suffixes}
    \cup { <<"ssh", ":", "//", "git", "@", "host", "/", "org", "/", "repo", ".git">>,
           <<"https", ":", "//", "host">>,
           <<"host", "/", "org", "/", "repo", ".git">> }

InitUrl ==
    /\ MainIdle
    /\ \E u \in DrawnUrls : fcall = [fn |-> "extract_org_repo", git_repo_url |-> u]
    /\ fret = EmptyDict

CallUrl ==
    /\ fcall.fn = "extract_org_repo"
    /\ Return(extract_org_repo(fcall.git_repo_url))

SpecUrl == InitUrl /\ [][CallUrl]_vars

(* build_message *)

Changes == { <<"change1">>, <<"change2">>, <<WhatsChanged>>, <<"## ", WhatsChanged, " in v1">>,
             <<>>, <<"  indented ">>, <<"hotfix: patch", "\n", "details">> }

Changelogs == UNION {[1..k -> Changes] : k \in 0..MaxChanges}

InitMsg ==
    /\ MainIdle
    /\ \E a \in {<<"authorName">>, <<>>}, cl \in Changelogs :
         fcall = [fn |-> "build_message", project_name |-> Project,
                  released_by |-> ReleasedBy, git_hash |-> <<"abcdef">>,
                  commit_author |-> a, changelog |-> cl]
    /\ fret = EmptyDict

CallMsg ==
    /\ fcall.fn = "build_message"
    /\ Return(Ok(build_message(fcall.project_name, fcall.released_by, fcall.git_hash,
                               fcall.commit_author, fcall.changelog)))

SpecMsg == InitMsg /\ [][CallMsg]_vars

-----------------------------------------------------------------------------
(* Properties of a run (specification Spec) *)

\* the webhook POSTs made so far, in order
Posts == SelectSeq(calls, LAMBDA c : c.fn = "POST")

\* whether some call of the given kind has been made
Called(fn) == \E i \in 1..Len(calls) : calls[i].fn = fn

\* the last call made
LastCall == calls[Len(calls)]

\* notify_release has just built its message: every call so far is its own
MessageJustBuilt == pc = "notify_send" /\ sent = 0

\* C1: in notify_release, a release record with a non-empty changelog means
\* get_commit_info is never invoked; an absent tag or an empty release
\* changelog (the release body is the empty string) means get_commit_info is
\* invoked and the commit message is the one changelog line passed to
\* build_message.
C1_CommitFetchIffNoReleaseChangelog ==
    MessageJustBuilt =>
        LET noChangelog == ~Truthy(tag) \/ release_info.body = <<>> IN
        /\ ~noChangelog => ~Called("GET commit")
        /\ noChangelog => /\ Called("GET commit")
                          /\ changelog = <<commit_info.commit.message>>

\* C2: the POSTs go to the configured webhook URLs in list order, at most one
\* per entry, each carrying {"text": message}; a failed delivery is the last
\* POST of the run; once the loop is over with every delivery successful,
\* there is exactly one POST per entry.
C2_PostsInListOrder ==
    Posts # <<>> =>
        LET urls == Split(args.slack_url_release, ",") IN
        /\ Len(Posts) <= Len(urls)
        /\ \A i \in 1..Len(Posts) :
              /\ Posts[i].url = urls[i]
              /\ Posts[i].data = [text |-> message]
              /\ Posts[i].failed => i = Len(Posts)
        /\ (pc # "notify_send" /\ \A i \in 1..Len(Posts) : ~Posts[i].failed)
              => Len(Posts) = Len(urls)

\* C2 witness: the first of two deliveries failed and the run ended there.
C2_Witness ==
    /\ pc = "exit"
    /\ Len(slack_urls) = 2
    /\ Len(Posts) = 1
    /\ Posts[1].failed
    /\ Posts[1].url # <<>>

\* a fetch step of notify_release raised
NotifyFetchRaised ==
    /\ exc.caller = "notify_release"
    /\ exc.fn \in {"extract_org_repo", "get_tag_for_commit",
                   "get_release_info_by_tag", "get_commit_info"}

\* C3: an error aborts the run where it happens: a failed external call is
\* the last call of the run, a Repository Locator failure comes before any
\* call, a failed release fetch is not followed by the commit fetch, and a
\* failure of the locator, the tag resolver, the release fetch or the commit
\* fetch of notify_release means no webhook POST is ever issued.
C3_ErrorsAbortTheRun ==
    /\ \A i \in 1..Len(calls) : calls[i].failed => i = Len(calls)
    /\ exc # NoExc => pc = "exit"
    /\ (exc.caller = "notify_release" /\ exc.fn = "extract_org_repo") => calls = <<>>
    /\ (exc.caller = "notify_release" /\ exc.fn = "get_release_info_by_tag")
          => ~Called("GET commit")
    /\ NotifyFetchRaised => Posts = <<>>

\* C3 witness: the release fetch of notify_release failed.
C3_Witness ==
    /\ exc.caller = "notify_release"
    /\ exc.fn = "get_release_info_by_tag"
    /\ LastCall.fn = "GET release"
    /\ LastCall.failed

\* the run made it through notification and, if requested, the dump
Completed ==
    /\ exc = NoExc
    /\ Len(Posts) = Len(slack_urls)
    /\ \A i \in 1..Len(calls) : ~calls[i].failed
    /\ Truthy(args.dump_release_info) => (LastCall.fn = "open" /\ "doc" \in DOMAIN file)

\* the run ended on an HTTP request that failed
HttpFailed ==
    /\ calls # <<>>
    /\ LastCall.failed
    /\ LastCall.fn \in {"GET release", "GET commit", "POST"}

\* the run ended on a repository URL of neither form
BadRepoUrl == exc.fn = "extract_org_repo"

\* the run ended on `git ls-remote` output that is not UTF-8
UndecodableOutput == exc.fn = "get_tag_for_commit" /\ LastCall.fn = "git ls-remote" /\ ~LastCall.failed

\* the exit status of a run that passed the argument check, and the category
\* reported when the category of a failure is given by categoryOf
ExitAndCategory(category) ==
    (pc = "exit" /\ exit_status # Exited(2)) =>
        /\ exit_status \in {Exited(0), Exited(1)}
        /\ exit_status = Exited(0) <=> Completed
        /\ exit_status = Exited(0) => report = ""
        /\ exit_status = Exited(1) => report = category

\* C4 as stated: exit status 0 exactly when the run completed without error,
\* 1 for every failure; HTTP/transport failures are reported as network, an
\* unrecognised repository URL as value, everything else as unexpected.
C4_Original ==
    ExitAndCategory(IF HttpFailed THEN "network"
                    ELSE IF BadRepoUrl THEN "value"
                    ELSE "unexpected")

\* C4 amended: as C4, but `git ls-remote` output that is not valid UTF-8 is
\* reported as value too (UnicodeDecodeError is a ValueError).
C4_ExitStatusAndCategory ==
    ExitAndCategory(IF HttpFailed THEN "network"
                    ELSE IF BadRepoUrl \/ UndecodableOutput THEN "value"
                    ELSE "unexpected")

\* C4 witness: a run that ended on undecodable ls-remote output.
C4_Witness ==
    /\ pc = "exit"
    /\ exit_status = Exited(1)
    /\ exc.cls = "UnicodeDecodeError"
    /\ report = "value"

\* the value of a required argument: the command line's, else the environment's
Resolved(n) == IF cli[n] # None THEN cli[n] ELSE env[n]

SomeInputMissing == \E n \in ArgRequired : Resolved(n) = None \/ Resolved(n) = <<>>

\* C5: when a required input is missing or empty after resolution, main exits
\* through the usage error (status 2) before any subprocess call, HTTP
\* request or file write, and not through the exception handlers.
C5_UsageErrorBeforeAnyCall ==
    (pc # "start" /\ SomeInputMissing) =>
        /\ pc = "exit"
        /\ exit_status = Exited(2)
        /\ report = "usage"
        /\ exc = NoExc
        /\ calls = <<>>
        /\ file = file0

\* C5 witness: an empty --release-bot-token on the command line, the variable
\* set in the environment; the run ended with the usage error.
C5_Witness ==
    /\ pc = "exit"
    /\ exit_status = Exited(2)
    /\ cli.release_bot_token = <<>>
    /\ env.release_bot_token = Token
    /\ \A n \in ArgRequired \ {"release_bot_token"} : Truthy(Resolved(n))

\* the last call of the given kind
LastCallOf(fn) ==
    calls[CHOOSE i \in 1..Len(calls) :
            calls[i].fn = fn /\ \A j \in (i + 1)..Len(calls) : calls[j].fn # fn]

\* dump_release_info has written the destination file
DumpWritten == calls # <<>> /\ LastCall.fn = "open" /\ ~LastCall.failed

\* C9: after a successful dump_release_info the destination file holds
\* exactly the record the release fetch returned when the commit resolved to
\* a tag, and otherwise a record whose keys are exactly commit, message and
\* author, message and author being those of the commit record; nothing of
\* the previous content is left.
C9_DumpedRecord ==
    DumpWritten =>
        /\ DOMAIN file = {"indent", "doc"}
        /\ IF Truthy(d_tag)
           THEN file.doc = LastCallOf("GET release").json
           ELSE LET ci == LastCallOf("GET commit").json IN
                /\ DOMAIN file.doc = {"commit", "message", "author"}
                /\ file.doc.commit = ci
                /\ file.doc.message = ci.commit.message
                /\ file.doc.author = ci.commit.author.name

\* C9 witness: a tagged commit, and a file left by an earlier run replaced by
\* the release record.
C9_Witness ==
    /\ DumpWritten
    /\ Truthy(d_tag)
    /\ file0 = Stale
    /\ file.doc = ReleaseFull

\* C10: every release-by-tag and commit-by-hash request of a run, on the
\* notify path and on the dump path, is addressed to the org/repo the
\* Repository Locator derives from the remote URL.
C10_OneOrgRepoForEveryFetch ==
    \A i \in 1..Len(calls) :
        calls[i].fn \in {"GET release", "GET commit"}
            => calls[i].org_repo = extract_org_repo(args.git_repo_url).v

\* the calls notify_release made: the dump starts after its last POST
NotifyCalls ==
    IF Posts = <<>> THEN calls
    ELSE SubSeq(calls, 1, CHOOSE i \in 1..Len(calls) :
                            calls[i].fn = "POST" /\ \A j \in (i + 1)..Len(calls) : calls[j].fn # "POST")

\* where notify_release made a call of the given kind
NotifyIndex(fn) == {i \in 1..Len(NotifyCalls) : NotifyCalls[i].fn = fn}

\* notify_release is past its call of get_tag_for_commit
PastTagStep ==
    \/ pc \in {"notify_release", "notify_commit", "notify_build", "notify_send", "notified",
               "dump_locate", "dump_tag", "dump_release", "dump_commit", "dump_write", "finish"}
    \/ exit_status = Exited(0)

NotifyFailed == exc # NoExc /\ (exc.caller = "notify_release" \/ exc.fn = "notify_release")

\* main has called dump_release_info
DumpAttempted ==
    \/ pc \in {"dump_locate", "dump_tag", "dump_release", "dump_commit", "dump_write"}
    \/ exc.caller = "dump_release_info"
    \/ exc.fn = "dump_release_info"
    \/ Called("open")
    \/ Len(calls) > Len(NotifyCalls)

\* C13: the dump is attempted only after notify_release returned, every
\* webhook delivery having succeeded; when a step of the notification fails,
\* a delivery partway through the list included, the destination file is
\* never opened or written, the deliveries made before the failure stay as
\* they were made, and the run exits with status 1.
C13_DumpOnlyAfterNotify ==
    /\ DumpAttempted =>
          /\ ~NotifyFailed
          /\ Truthy(args.dump_release_info)
          /\ sent = Len(slack_urls)
          /\ Len(Posts) = Len(slack_urls)
          /\ \A i \in 1..Len(Posts) : ~Posts[i].failed
    /\ NotifyFailed =>
          /\ ~DumpAttempted
          /\ file = file0
          /\ pc = "exit"
          /\ exit_status = Exited(1)
          /\ \A i \in 1..sent : Posts[i].url = slack_urls[i] /\ ~Posts[i].failed
          /\ Len(Posts) = IF exc.fn = "send_slack_notification" THEN sent + 1 ELSE 0

\* C13 witness: a dump was asked for, the first of two deliveries succeeded,
\* the second failed: the file left by an earlier run is as it was.
C13_Witness ==
    /\ NotifyFailed
    /\ Truthy(args.dump_release_info)
    /\ Len(slack_urls) = 2
    /\ sent = 1
    /\ Len(Posts) = 2
    /\ file0 = Stale
    /\ file = Stale

\* changelog and commit_author are those of the release record
FromRelease ==
    /\ changelog = Split(release_info.body, "\n")
    /\ commit_author = release_info.author.login

\* changelog and commit_author are those of the commit record
FromCommit ==
    /\ changelog = <<commit_info.commit.message>>
    /\ commit_author = commit_info.commit.author.name

\* C14: every message notify_release sends is built from an author and a
\* changelog of one source record: the login and the body lines of the release
\* record, or the author name and the message of the commit record, never one
\* field of each; the changelog given to build_message is never empty.
C14_AuthorAndChangelogOfOneSource ==
    \A i \in 1..Len(Posts) :
        /\ Posts[i].data.text = build_message(args.project_name, args.released_by,
                                               args.git_hash, commit_author, changelog)
        /\ changelog # <<>>
        /\ IF release_info # EmptyDict
           THEN FromRelease /\ commit_info = EmptyDict
           ELSE commit_info # EmptyDict /\ FromCommit

\* C14 witness: an untagged commit announced with the commit's author and message.
C14_Witness ==
    /\ Posts # <<>>
    /\ ~Posts[1].failed
    /\ release_info = EmptyDict
    /\ commit_info = CommitFull
    /\ commit_author = <<"Jane Doe">>

\* a step of dump_release_info before its write raised
DumpFetchFailed ==
    \/ exc.caller = "dump_release_info" /\ exc.fn # "open"
    \/ exc.fn = "dump_release_info"

\* C15: the destination file is touched by nothing but the final write of
\* dump_release_info, made after all its fetching: without
\* --dump-release-info, or when the dump's locator, tag lookup, release fetch
\* or commit fetch fails, the file is as it was before the run, neither
\* truncated nor created, and was never opened.
C15_FileTouchedOnlyByFinalWrite ==
    /\ file # file0 => DumpWritten
    /\ \A i \in 1..Len(calls) : calls[i].fn = "open" => i = Len(calls)
    /\ Called("open") =>
          /\ pc \in {"finish", "exit"}
          /\ Truthy(args.dump_release_info)
          /\ LastCall.path = args.dump_release_info
          /\ ~DumpFetchFailed
    /\ (pc # "start" /\ ~Truthy(args.dump_release_info)) =>
          file = file0 /\ ~Called("open")
    /\ DumpFetchFailed => file = file0 /\ ~Called("open")

\* C15 witness: the dump's release fetch failed and the file left by an
\* earlier run is as it was.
C15_Witness ==
    /\ exc.caller = "dump_release_info"
    /\ exc.fn = "get_release_info_by_tag"
    /\ LastCall.failed
    /\ file0 = Stale
    /\ file = Stale

-----------------------------------------------------------------------------
(* Properties of get_tag_for_commit (specification SpecTag) *)

\* the lines of the listing, in scan order
ListingLines == Split(fcall.proc.text, "\n")

\* the line holds the hash and the marker
Matches(line) == In(fcall.commit_hash, line) /\ In(<<Marker>>, line)

FirstMatch ==
    CHOOSE i \in 1..Len(ListingLines) :
        Matches(ListingLines[i]) /\ \A j \in 1..(i - 1) : ~Matches(ListingLines[j])

\* what follows the marker in the line
AfterMarker(line) == SubSeq(line, Index(line, Marker) + 1, Len(line))

StripTrailingDeref(t) ==
    IF t # <<>> /\ t[Len(t)] = Deref THEN SubSeq(t, 1, Len(t) - 1) ELSE t

\* C6: get_tag_for_commit returns, for the first line in scan order holding
\* both the hash and the marker refs/tags/, what follows the marker in that
\* line without a trailing ^{}; it returns None when no line holds both.
C6_TagOfFirstMatchingLine ==
    (fcall.fn = "get_tag_for_commit" /\ fret # EmptyDict) =>
        /\ fret.ok
        /\ IF \E i \in 1..Len(ListingLines) : Matches(ListingLines[i])
           THEN fret.v = StripTrailingDeref(AfterMarker(ListingLines[FirstMatch]))
           ELSE fret.v = None

-----------------------------------------------------------------------------
(* Properties of extract_org_repo (specification SpecUrl) *)

OrgRepo(repo) == <<"org", "/">> \o repo

EitherForm ==
    {HttpUrl(sc, r, g) : sc \in Schemes, r \in Repos, g \in Suffixes}
    \cup {SshUrl(u, r, g) : u \in Users, r \in Repos, g \in Suffixes}

\* C7: extract_org_repo maps https://host/org/repo.git (or http) to org/repo,
\* maps user@host:org/repo.git to org/repo for any user name, and fails with
\* a ValueError on an input of neither form.
C7_OrgRepoOfEitherForm ==
    (fcall.fn = "extract_org_repo" /\ fret # EmptyDict) =>
        LET url == fcall.git_repo_url IN
        /\ \A sc \in Schemes, r \in Repos :
              url = HttpUrl(sc, r, <<".git">>) => fret = Ok(OrgRepo(r))
        /\ \A u \in Users, r \in Repos :
              url = SshUrl(u, r, <<".git">>) => fret = Ok(OrgRepo(r))
        /\ url \notin EitherForm => fret = Err("ValueError")

\* C12: extract_org_repo removes '.git' only as the trailing suffix: for a
\* URL whose org/repo path holds '.git' at a non-trailing position, the result
\* is the path without its leading slash and without a trailing '.git', the
\* inner occurrence kept.
C12_OnlyTrailingGitRemoved ==
    (fcall.fn = "extract_org_repo" /\ fret # EmptyDict) =>
        LET url == fcall.git_repo_url IN
        \A r \in Repos, g \in Suffixes :
            In(<<".git">>, r) =>
                /\ \A sc \in Schemes : url = HttpUrl(sc, r, g) => fret = Ok(OrgRepo(r))
                /\ url = SshUrl("git", r, g) => fret = Ok(OrgRepo(r))

-----------------------------------------------------------------------------
(* Properties of build_message (specification SpecMsg) *)

\* the changelog entries that do not hold "What's Changed", in order
Kept(cl) == SelectSeq(cl, LAMBDA c : ~In(<<WhatsChanged>>, c))

\* the six header lines
HeaderLines(c) ==
    << <<"*Release Notification:*">>,
       <<"*Project:* ">> \o c.project_name,
       <<"*Released by:* ">> \o c.released_by,
       <<"*Commit:* ">> \o c.git_hash,
       <<"*Author:* ">> \o c.commit_author,
       <<"*What's Changed:*">> >>

\* every line followed by a newline
RECURSIVE Unlines(_)
Unlines(lines) ==
    IF lines = <<>> THEN <<>> ELSE Head(lines) \o <<"\n">> \o Unlines(Tail(lines))

\* C8: the message is the six header lines filled with project, releaser,
\* hash and author, the opening fence, the changelog entries that do not hold
\* "What's Changed", in order and unmodified, each followed by a newline, and
\* the closing fence; when no entry holds a newline, the rows of the message
\* are exactly these lines.
C8_MessageLayout ==
    (fcall.fn = "build_message" /\ fret # EmptyDict) =>
        LET body == HeaderLines(fcall) \o << <<Fence>> >> \o Kept(fcall.changelog) IN
        /\ fret.v = Unlines(body) \o <<Fence>>
        /\ (\A i \in 1..Len(fcall.changelog) : ~In(<<"\n">>, fcall.changelog[i]))
              => Split(fret.v, "\n") = body \o << <<Fence>> >>

\* C8 witness: a changelog whose first entry holds "What's Changed" inside a
\* longer line, followed by two entries that are kept.
C8_Witness ==
    /\ fcall.fn = "build_message"
    /\ fret # EmptyDict
    /\ fcall.changelog = << <<"## ", WhatsChanged, " in v1">>, <<"change1">>, <<"change2">> >>
    /\ Split(fret.v, "\n")[8] = <<"change1">>

====
